---------------------------- MODULE Spec2Model ----------------------------
(***************************************************************************)
(* A model of the REST resource framework "reason": the Server with its    *)
(* route table (Add, ServeHTTP and the per-route request functions), the   *)
(* response and error writers, the form decoder (parseForm) and the        *)
(* schema field cache (getSchemaFields) with its reader/writer lock.       *)
(*                                                                         *)
(* Three specifications share the state:                                   *)
(*   Spec       the server: handlers are added, requests are served;       *)
(*   SpecForm   parseForm applied to a schema and a form drawn from the    *)
(*              bounded input sets;                                        *)
(*   SpecCache  several goroutines inside getSchemaFields at once, one     *)
(*              step per lock operation, map access and loop iteration.    *)
(*                                                                         *)
(* Strings that the code looks into (form values, struct tags) are         *)
(* sequences: a form value is a sequence of characters, a struct tag or a  *)
(* wire name a sequence of tokens, "," being the delimiter token.          *)
(***************************************************************************)
EXTENDS Integers, Sequences, FiniteSets, TLC

VARIABLES
    routes,     \* Server.router: the registered routes
    added,      \* the handlers Add was called with (history)
    formCache,  \* Server.formCache: schema type -> descriptor list (nil if absent)
    req,        \* the request being answered
    resp,       \* the response written for it
    calls,      \* the decoder and handler calls made for it, in order
    formIn,     \* SpecForm: the schema type and form handed to parseForm
    formOut,    \* SpecForm: what parseForm returned
    pc,         \* SpecCache: each goroutine's position in getSchemaFields
    callT,      \* SpecCache: the schema type each goroutine asks for
    fields,     \* SpecCache: each goroutine's local variable `fields`
    loopI,      \* SpecCache: each goroutine's loop variable `i`
    ret,        \* SpecCache: the lists each goroutine's calls returned
    rw,         \* Server.formCacheLock
    stores      \* SpecCache: number of stores to each type's cache entry (history)

vars == <<routes, added, formCache, req, resp, calls, formIn, formOut,
          pc, callT, fields, loopI, ret, rw, stores>>

serverVars == <<routes, added, req, resp, calls>>
formVars   == <<formIn, formOut>>
cacheVars  == <<pc, callT, fields, loopI, ret, rw, stores>>

Nil == "nil"

\* A Go slice: nil, or a (possibly empty) list of elements.
NilSlice == [isNil |-> TRUE, elems |-> <<>>]
Slice(s) == [isNil |-> FALSE, elems |-> s]

(***************************************************************************)
(* Bounds of the model.                                                    *)
(***************************************************************************)
\* longest form value drawn over Alphabet
MaxLen == 3
\* goroutines inside getSchemaFields at once
NumCallers == 3

(***************************************************************************)
(* Characters and form values.                                             *)
(***************************************************************************)
DigitChars == {"0", "1", "2", "3", "4", "5", "6", "7", "8", "9"}

Alphabet == {"0", "1", "3", "-", "."}

Keywords == { <<"t","r","u","e">>, <<"f","a","l","s","e">>, <<"y","e","s">>,
              <<"T","r","u","e">>, <<"t">> }

StringsUpTo(n) == UNION { [1..k -> Alphabet] : k \in 0..n }

FormValues == StringsUpTo(MaxLen) \cup Keywords

DigitVal(c) ==
    CASE c = "0" -> 0 [] c = "1" -> 1 [] c = "2" -> 2 [] c = "3" -> 3
      [] c = "4" -> 4 [] c = "5" -> 5 [] c = "6" -> 6 [] c = "7" -> 7
      [] c = "8" -> 8 [] c = "9" -> 9

RECURSIVE Pow(_, _)
Pow(b, e) == IF e = 0 THEN 1 ELSE b * Pow(b, e - 1)

(***************************************************************************)
(* Errors.  An error value is a record; NoErr is Go's nil error.           *)
(***************************************************************************)
NoErr       == [kind |-> "nil",         func |-> "", num |-> <<>>]
ErrNotFound == [kind |-> "ErrNotFound", func |-> "", num |-> <<>>]
ErrOther    == [kind |-> "other",       func |-> "", num |-> <<>>]
NumError(f, s) == [kind |-> "NumError", func |-> f, num |-> s]

(***************************************************************************)
(* The three specifications share the variables; each leaves the others'   *)
(* variables at these values.                                              *)
(***************************************************************************)
NotReturned == [returned |-> FALSE, val |-> Nil, err |-> NoErr]

IdleServer == /\ routes = {}
              /\ added = {}
              /\ req = [method |-> ""]
              /\ resp = [status |-> 0]
              /\ calls = <<>>
IdleForm   == /\ formIn = Nil
              /\ formOut = NotReturned
IdleCache  == /\ pc = <<>>
              /\ callT = <<>>
              /\ fields = <<>>
              /\ loopI = <<>>
              /\ ret = <<>>
              /\ rw = Nil
              /\ stores = <<>>

(***************************************************************************)
(* strconv, as parseForm calls it: base 10, bitSize 64.  The 64-bit range  *)
(* error needs a value of 19 digits or more; the form values of the model  *)
(* are far shorter, so a parse fails here only on syntax.                  *)
(***************************************************************************)
RECURSIVE DigitsValue(_, _)
DigitsValue(s, n) ==
    IF s = <<>> THEN n ELSE DigitsValue(Tail(s), 10 * n + DigitVal(Head(s)))

AllDigits(s) == \A i \in 1..Len(s) : s[i] \in DigitChars

\* strconv.ParseUint(s, 10, 64): no sign is accepted, at least one digit
ParseUint(s) ==
    IF s # <<>> /\ AllDigits(s)
    THEN [err |-> NoErr, val |-> DigitsValue(s, 0)]
    ELSE [err |-> NumError("ParseUint", s), val |-> 0]

\* strconv.ParseInt(s, 10, 64): an optional sign, then ParseUint's digits
ParseInt(s) ==
    IF s = <<>> THEN [err |-> NumError("ParseInt", s), val |-> 0]
    ELSE LET signed == Head(s) \in {"+", "-"}
             neg    == Head(s) = "-"
             body   == IF signed THEN Tail(s) ELSE s
             un     == ParseUint(body)
         IN  IF un.err # NoErr
             THEN [err |-> NumError("ParseInt", s), val |-> 0]
             ELSE [err |-> NoErr, val |-> IF neg THEN 0 - un.val ELSE un.val]

RECURSIVE StripZeros(_)
StripZeros(f) ==
    IF f.scale > 0 /\ f.num % 10 = 0
    THEN StripZeros([f EXCEPT !.num = f.num \div 10, !.scale = f.scale - 1])
    ELSE f

\* A float64 is the decimal fraction (-1)^neg * num / 10^scale, in lowest scale.
FloatZero == [neg |-> FALSE, num |-> 0, scale |-> 0]

\* strconv.ParseFloat(s, 64) on decimal notation: an optional sign, digits with
\* at most one point, at least one digit.  (Exponents, hexadecimal notation,
\* "inf" and "nan" need characters that no form value of the model holds.)
ParseFloat(s) ==
    LET signed == s # <<>> /\ Head(s) \in {"+", "-"}
        neg    == s # <<>> /\ Head(s) = "-"
        body   == IF signed THEN Tail(s) ELSE s
        points == { i \in 1..Len(body) : body[i] = "." }
        digs   == SelectSeq(body, LAMBDA c : c \in DigitChars)
        ok     == /\ \A i \in 1..Len(body) : body[i] \in DigitChars \cup {"."}
                  /\ Cardinality(points) <= 1
                  /\ digs # <<>>
        scale  == IF points = {} THEN 0
                  ELSE Len(body) - (CHOOSE i \in points : TRUE)
    IN  IF ok
        THEN [err |-> NoErr,
              val |-> StripZeros([neg |-> neg, num |-> DigitsValue(digs, 0),
                                  scale |-> scale])]
        ELSE [err |-> NumError("ParseFloat", s), val |-> FloatZero]

(***************************************************************************)
(* Schema types (reflect.Type of the schema handed to Add).  TestResource  *)
(* is the schema of the repository's tests; Sample has one field of each   *)
(* kind the decoder distinguishes, a tag with an option, a field without   *)
(* a tag and a field of a kind the decoder does not handle.                *)
(***************************************************************************)
Comma == ","

SchemaTypes == {"TestResource", "Sample"}

StructFields(t) ==
    CASE t = "TestResource" ->
           << [Name |-> <<"ID">>,   Tag |-> <<"id">>,   Kind |-> "int64"],
              [Name |-> <<"Name">>, Tag |-> <<"name">>, Kind |-> "string"] >>
      [] t = "Sample" ->
           << [Name |-> <<"Count">>,  Tag |-> <<"count", Comma, "omitempty">>,
                                      Kind |-> "int8"],
              [Name |-> <<"Size">>,   Tag |-> <<"size">>,   Kind |-> "uint8"],
              [Name |-> <<"Ratio">>,  Tag |-> <<>>,         Kind |-> "float64"],
              [Name |-> <<"Active">>, Tag |-> <<"active">>, Kind |-> "bool"],
              [Name |-> <<"Tags">>,   Tag |-> <<"tags">>,   Kind |-> "slice"] >>

NumField(t) == Len(StructFields(t))

IntKinds   == {"int", "int8", "int16", "int32", "int64"}
UintKinds  == {"uint", "uint8", "uint16", "uint32", "uint64"}
FloatKinds == {"float32", "float64"}

\* bit width of the integer kinds the schemas of the model use
Bits(kind) == CASE kind \in {"int8", "uint8"} -> 8 [] OTHER -> 64

\* strings.Index(tag, ","): position of the first delimiter, 0 for Go's -1
IndexComma(tag) ==
    LET at == { i \in 1..Len(tag) : tag[i] = Comma }
    IN  IF at = {} THEN 0 ELSE CHOOSE i \in at : \A j \in at : i <= j

\* mutant: the tag is not cut at the delimiter
SchemaFieldWholeTag(t, i) ==
    LET sfield == StructFields(t)[i]
    IN  [name  |-> IF sfield.Tag # <<>> THEN sfield.Tag ELSE sfield.Name,
         typ   |-> sfield.Kind,
         index |-> <<i>>]

\* the loop body of getSchemaFields: the descriptor of field i
SchemaField(t, i) ==
    LET sfield == StructFields(t)[i]
        tag    == sfield.Tag
        idx    == IndexComma(tag)
        name   == IF tag # <<>>
                  THEN IF idx # 0 THEN SubSeq(tag, 1, idx - 1) ELSE tag
                  ELSE sfield.Name
    IN  [name |-> name, typ |-> sfield.Kind, index |-> <<i>>]

\* the descriptor list after the loop has run over every field
BuildFields(t) == Slice([i \in 1..NumField(t) |-> SchemaField(t, i)])

\* s.formCache = make(map[reflect.Type][]formField): a missing key reads as nil
EmptyCache == [t \in SchemaTypes |-> NilSlice]

\* getSchemaFields run alone, start to end: the list returned and the cache after
getSchemaFields(cache, t) ==
    IF ~cache[t].isNil
    THEN [fields |-> cache[t], cache |-> cache]
    ELSE [fields |-> BuildFields(t), cache |-> [cache EXCEPT ![t] = BuildFields(t)]]

(***************************************************************************)
(* reflect: zero values and the setters, which truncate to the field's     *)
(* width (reflect.Value.SetInt stores int8(x) in an int8 field, SetUint    *)
(* uint8(x) in a uint8 field) and report nothing.                          *)
(***************************************************************************)
ZeroOf(kind) ==
    CASE kind \in IntKinds \cup UintKinds -> 0
      [] kind = "string" -> <<>>
      [] kind \in FloatKinds -> FloatZero
      [] kind = "bool" -> FALSE
      [] OTHER -> Nil

\* reflect.New(t).Elem()
NewElem(t) == [i \in 1..NumField(t) |-> ZeroOf(StructFields(t)[i].Kind)]

WrapSigned(x, w) ==
    IF w >= 64 THEN x
    ELSE ((x + Pow(2, w - 1)) % Pow(2, w)) - Pow(2, w - 1)

WrapUnsigned(x, w) == IF w >= 64 THEN x ELSE x % Pow(2, w)

SetInt(kind, x)  == WrapSigned(x, Bits(kind))
SetUint(kind, x) == WrapUnsigned(x, Bits(kind))

(***************************************************************************)
(* The form decoder.  A form maps a wire name to its first value; an       *)
(* absent key reads as the empty string (http.Request.FormValue).          *)
(***************************************************************************)
FormValue(form, name) == IF name \in DOMAIN form THEN form[name] ELSE <<>>

\* mutant: the bool case done with strconv.ParseBool's spellings of true
BoolOfParseBool(formval) ==
    formval \in { <<"1">>, <<"t">>, <<"T">>, <<"t","r","u","e">>,
                  <<"T","r","u","e">>, <<"T","R","U","E">> }

\* the bool case of parseForm's switch
BoolOf(formval) == formval = <<"t","r","u","e">> \/ formval = <<"1">>

\* one iteration of parseForm's loop: the instance after the field, or the error
DecodeField(val, field, formval) ==
    IF formval = <<>> THEN [err |-> NoErr, val |-> val]
    ELSE CASE field.typ = "string" ->
                [err |-> NoErr, val |-> [val EXCEPT ![field.index[1]] = formval]]
           [] field.typ \in IntKinds ->
                LET p == ParseInt(formval)
                IN  IF p.err # NoErr THEN [err |-> p.err, val |-> Nil]
                    ELSE [err |-> NoErr,
                          val |-> [val EXCEPT ![field.index[1]] =
                                                  SetInt(field.typ, p.val)]]
           [] field.typ \in UintKinds ->
                LET p == ParseUint(formval)
                IN  IF p.err # NoErr THEN [err |-> p.err, val |-> Nil]
                    ELSE [err |-> NoErr,
                          val |-> [val EXCEPT ![field.index[1]] =
                                                  SetUint(field.typ, p.val)]]
           [] field.typ \in FloatKinds ->
                LET p == ParseFloat(formval)
                IN  IF p.err # NoErr THEN [err |-> p.err, val |-> Nil]
                    ELSE [err |-> NoErr,
                          val |-> [val EXCEPT ![field.index[1]] = p.val]]
           [] field.typ = "bool" ->
                [err |-> NoErr,
                 val |-> [val EXCEPT ![field.index[1]] = BoolOf(formval)]]
           [] OTHER -> [err |-> NoErr, val |-> val]

\* parseForm's loop from descriptor i on
RECURSIVE DecodeFrom(_, _, _, _)
DecodeFrom(flds, form, val, i) ==
    IF i > Len(flds) THEN [err |-> NoErr, val |-> val]
    ELSE LET d == DecodeField(val, flds[i], FormValue(form, flds[i].name))
         IN  IF d.err # NoErr THEN d ELSE DecodeFrom(flds, form, d.val, i + 1)

\* what parseForm returns once getSchemaFields has returned g and the loop d
Decoded(g, d) == [val |-> d.val, err |-> d.err, cache |-> g.cache]

\* parseForm's loop over the descriptor list g.fields
DecodeWith(g, form, t) == Decoded(g, DecodeFrom(g.fields.elems, form, NewElem(t), 1))

\* parseForm(r, schema): the instance or the error, and the cache afterwards
parseForm(cache, form, t) == DecodeWith(getSchemaFields(cache, t), form, t)

(***************************************************************************)
(* Forms of the model: one key of a form (the focus) holds a chosen value, *)
(* the other keys are empty or hold a value no conversion accepts.         *)
(***************************************************************************)
BadValue == <<"x">>

WireNames(t) == { SchemaField(t, i).name : i \in 1..NumField(t) }

\* the form whose focus key holds v and whose keys in bad hold BadValue
FormOf(t, focus, v, bad) ==
    [k \in WireNames(t) |->
        IF k = focus THEN v ELSE IF k \in bad THEN BadValue ELSE <<>>]

(***************************************************************************)
(* Resources and handlers.  The framework treats a resource as an opaque   *)
(* value: all it does with one is hand it to json.Marshal.  A value is a   *)
(* single resource or a list of resources; the resource "unmarshalable"    *)
(* stands for a value json.Marshal rejects (a channel, a function).        *)
(***************************************************************************)
Res(n)  == [list |-> FALSE, items |-> <<n>>]
List(s) == [list |-> TRUE,  items |-> s]
NilRes  == [list |-> FALSE, items |-> <<>>]

HandlerMethods ==
    {"GetResource", "ListResource", "CreateResource", "UpdateResource", "DeleteResource"}

\* the type assertions handler.(Getter), handler.(Lister), ...: a handler has
\* an interface when its method set holds every method of the interface
IsGetter(h)  == "GetResource" \in h.methods
IsLister(h)  == "ListResource" \in h.methods
IsCreator(h) == "CreateResource" \in h.methods
IsUpdater(h) == IsGetter(h) /\ "UpdateResource" \in h.methods
IsDeleter(h) == IsGetter(h) /\ "DeleteResource" \in h.methods

\* the handler types of the model: any method set at path "test", and the
\* tests' NoHandler, which has Path() alone
NoHandler == [path |-> "no", methods |-> {}]

Handlers == { [path |-> "test", methods |-> m] : m \in SUBSET HandlerMethods }
            \cup {NoHandler}

\* what a handler method returns: a value and an error
Ok(v)   == [res |-> v, err |-> NoErr]
Fail(e) == [res |-> NilRes, err |-> e]

Failures == {Fail(ErrNotFound), Fail(ErrOther)}

GetResults    == {Ok(Res("stored")), Ok(Res("unmarshalable"))} \cup Failures
FetchResults  == {Ok(Res("stored"))} \cup Failures
ListResults   == {Ok(List(<<>>)), Ok(List(<<"stored", "other">>)),
                  Ok(List(<<"unmarshalable">>))} \cup Failures
CreateResults == {Ok(Res("created")), Ok(Res("unmarshalable"))} \cup Failures
UpdateResults == {Ok(Res("updated")), Ok(Res("unmarshalable"))} \cup Failures
DeleteResults == {Ok(NilRes)} \cup Failures

\* how the handler behind a route answers during one request
NoEnv == [get |-> Ok(NilRes), list |-> Ok(NilRes), create |-> Ok(NilRes),
          update |-> Ok(NilRes), delete |-> Ok(NilRes)]

EnvsFor(op) ==
    CASE op = "get"    -> { [NoEnv EXCEPT !.get = g] : g \in GetResults }
      [] op = "list"   -> { [NoEnv EXCEPT !.list = l] : l \in ListResults }
      [] op = "create" -> { [NoEnv EXCEPT !.create = c] : c \in CreateResults }
      [] op = "update" -> { [NoEnv EXCEPT !.get = g, !.update = u] :
                              g \in FetchResults, u \in UpdateResults }
      [] op = "delete" -> { [NoEnv EXCEPT !.get = g, !.delete = d] :
                              g \in FetchResults, d \in DeleteResults }
      [] OTHER -> {NoEnv}

\* one call of the decoder or of a handler method, as the request made it
Call(fn, id, res, data, err) ==
    [fn |-> fn, id |-> id, res |-> res, data |-> data, err |-> err]

(***************************************************************************)
(* The response writer w: nothing is written until WriteHeader; a handler  *)
(* that returns without writing leaves net/http's implicit 200.            *)
(***************************************************************************)
NoBody == [empty |-> TRUE, json |-> NilRes]

Unwritten == [status |-> 0, body |-> NoBody, location |-> Nil]

WriteHeader(w, status) == [w EXCEPT !.status = status]
Write(w, out)          == [w EXCEPT !.body = out]

Flush(w) == IF w.status = 0 THEN [w EXCEPT !.status = 200] ELSE w

\* json.Marshal
jsonMarshal(v) ==
    IF \E i \in 1..Len(v.items) : v.items[i] = "unmarshalable"
    THEN [err |-> ErrOther, out |-> NoBody]
    ELSE [err |-> NoErr, out |-> [empty |-> FALSE, json |-> v]]

\* mutant: the sentinel is not told apart from the other errors
writeErrorNoSentinel(w, err) ==
    IF err # NoErr THEN WriteHeader(w, 500) ELSE w

writeError(w, err) ==
    IF err = ErrNotFound THEN WriteHeader(w, 404)
    ELSE IF err # NoErr THEN WriteHeader(w, 500)
    ELSE w

writeResource(w, status, res) ==
    LET m == jsonMarshal(res)
    IN  IF m.err # NoErr THEN WriteHeader(w, 500)
        ELSE Write(WriteHeader(w, status), m.out)

writeResourceList(w, status, list) ==
    LET m == jsonMarshal(list)
    IN  IF m.err # NoErr THEN WriteHeader(w, 500)
        ELSE Write(WriteHeader(w, status), m.out)

(***************************************************************************)
(* The request functions.  Each returns the writer and the calls made.     *)
(***************************************************************************)
getRequest(w, id, env) ==
    LET r == env.get
    IN  [w     |-> IF r.err # NoErr THEN writeError(w, r.err)
                   ELSE writeResource(w, 200, r.res),
         calls |-> << Call("GetResource", id, NilRes, Nil, r.err) >>]

listRequest(w, env) ==
    LET r == env.list
    IN  [w     |-> IF r.err # NoErr THEN writeError(w, r.err)
                   ELSE writeResourceList(w, 200, r.res),
         calls |-> << Call("ListResource", "", NilRes, Nil, r.err) >>]

createRequest(w, env, data) ==
    LET r == env.create
    IN  [w     |-> IF r.err # NoErr THEN writeError(w, r.err)
                   ELSE writeResource(w, 201, r.res),
         calls |-> << Call("CreateResource", "", NilRes, data, r.err) >>]

\* mutant: no return after GetResource's error has been written
updateRequestNoReturn(w, id, env, data) ==
    LET g == env.get
        u == env.update
        getCall == Call("GetResource", id, NilRes, Nil, g.err)
        updCall == Call("UpdateResource", "", g.res, data, u.err)
        w1 == IF g.err # NoErr THEN writeError(w, g.err) ELSE w
    IN  IF u.err # NoErr
        THEN [w |-> writeError(w1, u.err), calls |-> <<getCall, updCall>>]
        ELSE [w |-> writeResource(w1, 200, u.res), calls |-> <<getCall, updCall>>]

updateRequest(w, id, env, data) ==
    LET g == env.get
        u == env.update
        getCall == Call("GetResource", id, NilRes, Nil, g.err)
        updCall == Call("UpdateResource", "", g.res, data, u.err)
    IN  IF g.err # NoErr
        THEN [w |-> writeError(w, g.err), calls |-> <<getCall>>]
        ELSE IF u.err # NoErr
        THEN [w |-> writeError(w, u.err), calls |-> <<getCall, updCall>>]
        ELSE [w |-> writeResource(w, 200, u.res), calls |-> <<getCall, updCall>>]

\* mutant: no return after GetResource's error has been written
deleteRequestNoReturn(w, id, env) ==
    LET g == env.get
        d == env.delete
        getCall == Call("GetResource", id, NilRes, Nil, g.err)
        delCall == Call("DeleteResource", "", g.res, Nil, d.err)
        w1 == IF g.err # NoErr THEN writeError(w, g.err) ELSE w
    IN  IF d.err # NoErr
        THEN [w |-> writeError(w1, d.err), calls |-> <<getCall, delCall>>]
        ELSE [w |-> WriteHeader(w1, 200), calls |-> <<getCall, delCall>>]

deleteRequest(w, id, env) ==
    LET g == env.get
        d == env.delete
        getCall == Call("GetResource", id, NilRes, Nil, g.err)
        delCall == Call("DeleteResource", "", g.res, Nil, d.err)
    IN  IF g.err # NoErr
        THEN [w |-> writeError(w, g.err), calls |-> <<getCall>>]
        ELSE IF d.err # NoErr
        THEN [w |-> writeError(w, d.err), calls |-> <<getCall, delCall>>]
        ELSE [w |-> WriteHeader(w, 200), calls |-> <<getCall, delCall>>]

\* a request function run after the decoder returned p
After(p, n) ==
    [w     |-> n.w,
     calls |-> <<Call("parseForm", "", NilRes, p.val, p.err)>> \o n.calls,
     cache |-> p.cache]

\* the decoder's error p.err handed to writeError
Refused(w, p) ==
    After(p, [w |-> writeError(w, p.err), calls |-> <<>>])

\* mutant: the decoder's error is not looked at
createHandleUnchecked(w, env, p) == After(p, createRequest(w, env, p.val))

\* the closure Add registers for POST /P and PUT /P, parseForm having returned p
createHandle(w, env, p) ==
    IF p.err # NoErr THEN Refused(w, p)
    ELSE After(p, createRequest(w, env, p.val))

createRoute(w, cache, schema, form, env) ==
    createHandle(w, env, parseForm(cache, form, schema))

\* the closure Add registers for POST /P/:id, parseForm having returned p
updateHandle(w, id, env, p) ==
    IF p.err # NoErr THEN Refused(w, p)
    ELSE After(p, updateRequest(w, id, env, p.val))

updateRoute(w, cache, schema, form, id, env) ==
    updateHandle(w, id, env, parseForm(cache, form, schema))

(***************************************************************************)
(* Routes.  A pattern is /path (item FALSE) or /path/:id (item TRUE).      *)
(***************************************************************************)
Route(method, handler, item, op, schema) ==
    [method |-> method, path |-> handler.path, item |-> item, op |-> op,
     handler |-> handler, schema |-> schema]

\* mutant: a Creator is registered for POST alone
RoutesOfPostOnly(schema, h) ==
    (IF IsGetter(h)  THEN {Route("GET", h, TRUE, "get", schema)} ELSE {})
    \cup (IF IsLister(h)  THEN {Route("GET", h, FALSE, "list", schema)} ELSE {})
    \cup (IF IsCreator(h) THEN {Route("POST", h, FALSE, "create", schema)} ELSE {})
    \cup (IF IsUpdater(h) THEN {Route("POST", h, TRUE, "update", schema)} ELSE {})
    \cup (IF IsDeleter(h) THEN {Route("DELETE", h, TRUE, "delete", schema)} ELSE {})

\* the routes Add(resourceSchema, handler) registers
RoutesOf(schema, h) ==
    (IF IsGetter(h)  THEN {Route("GET", h, TRUE, "get", schema)} ELSE {})
    \cup (IF IsLister(h)  THEN {Route("GET", h, FALSE, "list", schema)} ELSE {})
    \cup (IF IsCreator(h) THEN {Route("POST", h, FALSE, "create", schema),
                                Route("PUT", h, FALSE, "create", schema)} ELSE {})
    \cup (IF IsUpdater(h) THEN {Route("POST", h, TRUE, "update", schema)} ELSE {})
    \cup (IF IsDeleter(h) THEN {Route("DELETE", h, TRUE, "delete", schema)} ELSE {})

(***************************************************************************)
(* Requests and the router.  A request path is its segments and whether a  *)
(* slash follows the last one: /test/1/ is <<"test", "1">> with slash.     *)
(***************************************************************************)
ReqMethods == {"GET", "POST", "PUT", "DELETE", "PATCH"}
PathNames  == {"test", "no", "other"}
Ids        == {"1", "3"}

ReqSegs == { <<p>> : p \in PathNames }
           \cup { <<p, id>> : p \in PathNames, id \in Ids }
           \cup { <<p, "1", "edit">> : p \in PathNames }

ReqPaths == { [segs |-> s, slash |-> b] : s \in ReqSegs, b \in BOOLEAN }

NoRoute == Route("", [path |-> "", methods |-> {}], FALSE, "", "")

Dispatch(kind, route, id, status) ==
    [kind |-> kind, route |-> route, id |-> id, status |-> status]

\* the routes of a method whose pattern the segments match exactly
Matching(rts, method, segs) ==
    { r \in rts : /\ r.method = method
                  /\ \/ (~r.item /\ segs = <<r.path>>)
                     \/ (r.item /\ Len(segs) = 2 /\ segs[1] = r.path) }

\* mutant: no redirect for a trailing slash
RouterOutcomesNoRedirect(rts, method, path) ==
    LET exact  == IF path.slash THEN {} ELSE Matching(rts, method, path.segs)
        others == IF path.slash THEN {}
                  ELSE UNION { Matching(rts, m, path.segs) :
                                 m \in ReqMethods \ {method} }
    IN  IF exact # {}
        THEN { Dispatch("handle", r,
                        IF r.item THEN path.segs[2] ELSE "", 0) : r \in exact }
        ELSE IF others # {}
        THEN { Dispatch("notAllowed", NoRoute, "", 405),
               Dispatch("notFound", NoRoute, "", 404) }
        ELSE { Dispatch("notFound", NoRoute, "", 404) }

\* httprouter's Router.ServeHTTP with the settings of httprouter.New() and
\* the NotFound handler New() installs: the ways it can answer.  An exact
\* match runs the route's closure; a path that matches once its trailing
\* slash is removed is redirected (the tests expect 307 for POST /test/);
\* a path registered under another method only is answered 404 by router
\* versions without method-not-allowed handling and 405 by those with it.
RouterOutcomes(rts, method, path) ==
    LET exact  == IF path.slash THEN {} ELSE Matching(rts, method, path.segs)
        tsr    == IF path.slash THEN Matching(rts, method, path.segs) ELSE {}
        others == IF path.slash THEN {}
                  ELSE UNION { Matching(rts, m, path.segs) :
                                 m \in ReqMethods \ {method} }
    IN  IF exact # {}
        THEN { Dispatch("handle", r,
                        IF r.item THEN path.segs[2] ELSE "", 0) : r \in exact }
        ELSE IF tsr # {}
        THEN { Dispatch("redirect", NoRoute, "",
                        IF method = "GET" THEN 301 ELSE 307) }
        ELSE IF others # {}
        THEN { Dispatch("notAllowed", NoRoute, "", 405),
               Dispatch("notFound", NoRoute, "", 404) }
        ELSE { Dispatch("notFound", NoRoute, "", 404) }

\* the forms the server specification sends to a route that decodes one: the
\* schema's first field is empty, a number or malformed, and at most one other
\* key holds a value no conversion accepts
ServerForms(t) ==
    { FormOf(t, SchemaField(t, 1).name, v, bad) :
        v \in {<<>>, <<"1">>, <<"-">>},
        bad \in {{}} \cup { {k} : k \in WireNames(t) \ {SchemaField(t, 1).name} } }

FormsOf(d) ==
    IF d.kind = "handle" /\ d.route.op \in {"create", "update"}
    THEN ServerForms(d.route.schema)
    ELSE {<<>>}

\* Server.ServeHTTP: the response, the calls made and the cache afterwards
Serve(cache, d, form, env) ==
    LET w == Unwritten
        keep(n) == [w |-> n.w, calls |-> n.calls, cache |-> cache]
    IN  CASE d.kind = "handle" /\ d.route.op = "get" ->
               keep(getRequest(w, d.id, env))
          [] d.kind = "handle" /\ d.route.op = "list" ->
               keep(listRequest(w, env))
          [] d.kind = "handle" /\ d.route.op = "create" ->
               createRoute(w, cache, d.route.schema, form, env)
          [] d.kind = "handle" /\ d.route.op = "update" ->
               updateRoute(w, cache, d.route.schema, form, d.id, env)
          [] d.kind = "handle" /\ d.route.op = "delete" ->
               keep(deleteRequest(w, d.id, env))
          [] d.kind = "redirect" ->
               [w |-> [WriteHeader(w, d.status) EXCEPT !.location = "stripped"],
                calls |-> <<>>, cache |-> cache]
          [] OTHER ->
               [w |-> WriteHeader(w, d.status), calls |-> <<>>, cache |-> cache]

(***************************************************************************)
(* Spec: the server.                                                       *)
(***************************************************************************)
\* no request is being answered
NoRequest  == [method |-> ""]
NoResponse == [status |-> 0]

Init ==
    /\ routes = {}
    /\ added = {}
    /\ formCache = EmptyCache
    /\ req = NoRequest
    /\ resp = NoResponse
    /\ calls = <<>>
    /\ IdleForm
    /\ IdleCache

\* s.Add(resourceSchema, handler).  A second handler for a path is a caller
\* error (the router panics on a repeated route), so each path is added once.
Add ==
    \E schema \in SchemaTypes, h \in Handlers :
        /\ req.method = ""
        /\ \A a \in added : a.path # h.path
        /\ routes' = routes \cup RoutesOf(schema, h)
        /\ added' = added \cup {h}
        /\ req' = NoRequest
        /\ resp' = NoResponse
        /\ calls' = <<>>
        /\ UNCHANGED <<formCache, formVars, cacheVars>>

\* ServeHTTP returns: the response is complete, the cache as the decoder left it
Answered(out) ==
    /\ resp' = Flush(out.w)
    /\ calls' = out.calls
    /\ formCache' = out.cache

\* one request, from the router to the response (requests are served one
\* after the other in this specification)
Request ==
    \E method \in ReqMethods, path \in ReqPaths :
        \E d \in RouterOutcomes(routes, method, path) :
            \E form \in FormsOf(d), env \in EnvsFor(d.route.op) :
                /\ req.method = ""
                /\ req' = [method |-> method, path |-> path, form |-> form,
                           env |-> env, op |-> d.route.op,
                           schema |-> d.route.schema]
                /\ Answered(Serve(formCache, d, form, env))
                /\ UNCHANGED <<routes, added, formVars, cacheVars>>

\* the response has been sent: the server waits for the next request
Sent ==
    /\ req.method # ""
    /\ req' = NoRequest
    /\ resp' = NoResponse
    /\ calls' = <<>>
    /\ UNCHANGED <<routes, added, formCache, formVars, cacheVars>>

Next == Add \/ Request \/ Sent

Spec == Init /\ [][Next]_vars

(***************************************************************************)
(* Claims about the server, checked under Spec.                            *)
(***************************************************************************)
Answering == req.method # ""

LastCall == calls[Len(calls)]

CallsOf(fn) == { i \in 1..Len(calls) : calls[i].fn = fn }

\* the (method, item) pairs of the routes that belong to handler h
RoutesFor(h) == { <<r.method, r.item>> : r \in { x \in routes : x.handler = h } }

\* the (method, item) pairs the five capabilities stand for
CapabilityRoutes(h) ==
    { k \in { <<"GET", TRUE>>, <<"GET", FALSE>>, <<"POST", FALSE>>, <<"PUT", FALSE>>,
              <<"POST", TRUE>>, <<"DELETE", TRUE>> } :
        \/ k = <<"GET", TRUE>> /\ "GetResource" \in h.methods
        \/ k = <<"GET", FALSE>> /\ "ListResource" \in h.methods
        \/ k \in {<<"POST", FALSE>>, <<"PUT", FALSE>>} /\ "CreateResource" \in h.methods
        \/ k = <<"POST", TRUE>> /\ {"GetResource", "UpdateResource"} \subseteq h.methods
        \/ k = <<"DELETE", TRUE>> /\ {"GetResource", "DeleteResource"} \subseteq h.methods }

C2_FetchThenDecode ==
    (Answering /\ req.op = "update") =>
        /\ calls[1].fn = "GetResource"
        /\ req.env.get.err = ErrNotFound =>
              /\ resp.status = 404
              /\ resp.body = NoBody
              /\ CallsOf("UpdateResource") = {}

\* C2 as amended: on an update the form is decoded first, then the resource is
\* fetched, then UpdateResource is called with both.  A form that does not
\* decode is answered 500 with an empty body and no handler method is called,
\* known id or not; when the form decodes and GetResource reports ErrNotFound
\* the response is 404 with an empty body and UpdateResource is not called;
\* when the form decodes, the id is known and UpdateResource returns a resource
\* that marshals, the response is 200 with that resource.
C2_DecodeFetchUpdate ==
    (Answering /\ req.op = "update") =>
        /\ calls[1].fn = "parseForm"
        /\ calls[1].err # NoErr =>
              /\ Len(calls) = 1
              /\ resp.status = 500
              /\ resp.body = NoBody
        /\ calls[1].err = NoErr =>
              /\ Len(calls) >= 2
              /\ calls[2].fn = "GetResource"
              /\ calls[2].id = req.path.segs[2]
              /\ req.env.get.err = ErrNotFound =>
                    /\ Len(calls) = 2
                    /\ resp.status = 404
                    /\ resp.body = NoBody
              /\ req.env.get.err = NoErr =>
                    /\ Len(calls) = 3
                    /\ calls[3].fn = "UpdateResource"
                    /\ calls[3].res = req.env.get.res
                    /\ calls[3].data = calls[1].data
                    /\ (req.env.update.err = NoErr
                           /\ req.env.update.res = Res("updated")) =>
                          /\ resp.status = 200
                          /\ resp.body = [empty |-> FALSE, json |-> Res("updated")]

\* an update of an unknown id whose form does not decode was answered 500
C2_Witness ==
    /\ Answering
    /\ req.op = "update"
    /\ req.env.get.err = ErrNotFound
    /\ calls[1].err.kind = "NumError"
    /\ resp.status = 500

\* C3: on a delete, GetResource(id) is called before DeleteResource; when
\* GetResource returns an error the response is that error's status (404 for
\* ErrNotFound) and DeleteResource is not called; when both succeed the
\* response is 200 with an empty body.
C3_DeleteAfterFetch ==
    (Answering /\ req.op = "delete") =>
        /\ calls[1].fn = "GetResource"
        /\ calls[1].id = req.path.segs[2]
        /\ \A i \in CallsOf("DeleteResource") : i = 2 /\ calls[1].err = NoErr
        /\ req.env.get.err # NoErr =>
              /\ CallsOf("DeleteResource") = {}
              /\ resp.status = (IF req.env.get.err = ErrNotFound THEN 404 ELSE 500)
              /\ resp.body = NoBody
        /\ (req.env.get.err = NoErr /\ req.env.delete.err = NoErr) =>
              /\ Len(calls) = 2
              /\ calls[2].fn = "DeleteResource"
              /\ calls[2].res = req.env.get.res
              /\ resp.status = 200
              /\ resp.body = NoBody

\* a delete of an unknown id was answered 404
C3_Witness ==
    /\ Answering
    /\ req.op = "delete"
    /\ req.env.get.err = ErrNotFound
    /\ req.env.delete.err = NoErr
    /\ resp.status = 404

ExactMatch == ~req.path.slash /\ Matching(routes, req.method, req.path.segs) # {}

SlashMatch == req.path.slash /\ Matching(routes, req.method, req.path.segs) # {}

OtherMethodMatch ==
    /\ ~req.path.slash
    /\ \E r \in routes :
          r.method # req.method /\ Matching({r}, r.method, req.path.segs) # {}

Returned ==
    CASE req.op = "get"    -> req.env.get.res
      [] req.op = "list"   -> req.env.list.res
      [] req.op = "create" -> req.env.create.res
      [] req.op = "update" -> req.env.update.res
      [] OTHER -> NilRes

Unmarshalable(v) == \E i \in 1..Len(v.items) : v.items[i] = "unmarshalable"

\* C5: on every route a failed request gets a status-only response: 404 if and
\* only if the error that reaches the writer is ErrNotFound, 500 for every
\* other error (another handler error, a form-decode error, a result that does
\* not marshal), and an empty body in all these cases.
C5_StatusOnlyFailure ==
    (Answering /\ req.op # "") =>
        /\ \A i \in 1..Len(calls) : calls[i].err # NoErr => i = Len(calls)
        /\ resp.status = 404 <=> LastCall.err = ErrNotFound
        /\ LastCall.err \notin {NoErr, ErrNotFound} => resp.status = 500
        /\ (LastCall.err = NoErr /\ LastCall.fn # "DeleteResource"
               /\ Unmarshalable(Returned)) => resp.status = 500
        /\ (LastCall.err = NoErr /\ ~Unmarshalable(Returned)) =>
              resp.status \in {200, 201}
        /\ resp.status \in {404, 500} => resp.body = NoBody

\* a list whose elements do not marshal was answered 500 with an empty body
C5_Witness ==
    /\ Answering
    /\ req.op = "list"
    /\ req.env.list = Ok(List(<<"unmarshalable">>))
    /\ resp.status = 500
    /\ resp.body = NoBody

\* the fields of schema t whose form value is not empty and fails conversion
FailingFields(t, form) ==
    { i \in 1..NumField(t) :
        LET v == FormValue(form, SchemaField(t, i).name)
            k == StructFields(t)[i].Kind
        IN  /\ v # <<>>
            /\ \/ k \in IntKinds /\ ParseInt(v).err # NoErr
               \/ k \in UintKinds /\ ParseUint(v).err # NoErr
               \/ k \in FloatKinds /\ ParseFloat(v).err # NoErr }

FirstOf(S) == CHOOSE i \in S : \A j \in S : i <= j

\* C8: on POST /P and PUT /P the form is decoded before the handler is called,
\* field by field in descriptor order; the first integer, unsigned or float
\* field whose non-empty value fails conversion aborts the decode: parseForm
\* returns that field's error and no instance, CreateResource is not called
\* and the response is 500 with an empty body.
C8_CreateDecodeFirst ==
    (Answering /\ req.op = "create") =>
        LET failing == FailingFields(req.schema, req.form)
        IN  /\ req.method \in {"POST", "PUT"}
            /\ calls[1].fn = "parseForm"
            /\ failing # {} =>
                  /\ Len(calls) = 1
                  /\ calls[1].err.kind = "NumError"
                  /\ calls[1].err.num =
                        FormValue(req.form, SchemaField(req.schema, FirstOf(failing)).name)
                  /\ calls[1].data = Nil
                  /\ resp.status = 500
                  /\ resp.body = NoBody
            /\ failing = {} =>
                  /\ calls[1].err = NoErr
                  /\ Len(calls) = 2
                  /\ calls[2].fn = "CreateResource"
                  /\ calls[2].data = calls[1].data

\* a PUT whose form has two fields that fail conversion was answered 500
C8_Witness ==
    /\ Answering
    /\ req.op = "create"
    /\ req.method = "PUT"
    /\ Cardinality(FailingFields(req.schema, req.form)) = 2
    /\ resp.status = 500

(***************************************************************************)
(* SpecForm: parseForm applied once to a schema type and a form.  One key  *)
(* of the form (the focus) holds any form value, the other keys are empty  *)
(* or hold a value no conversion accepts.                                  *)
(***************************************************************************)
InitForm ==
    /\ formCache = EmptyCache
    /\ \E t \in SchemaTypes :
         \E focus \in WireNames(t), v \in FormValues \cup {BadValue} :
            \E bad \in SUBSET (WireNames(t) \ {focus}) :
                formIn = [t |-> t, form |-> FormOf(t, focus, v, bad)]
    /\ formOut = NotReturned
    /\ IdleServer
    /\ IdleCache

\* data, err := s.parseForm(r, schema)
ParseFormCall ==
    /\ ~formOut.returned
    /\ LET p == parseForm(formCache, formIn.form, formIn.t)
       IN  /\ formOut' = [returned |-> TRUE, val |-> p.val, err |-> p.err]
           /\ formCache' = p.cache
    /\ UNCHANGED <<formIn, serverVars, cacheVars>>

NextForm == ParseFormCall

SpecForm == InitForm /\ [][NextForm]_vars

(***************************************************************************)
(* Claims about the form decoder, checked under SpecForm.                  *)
(***************************************************************************)
FieldsOfKind(t, kinds) == { i \in 1..NumField(t) : StructFields(t)[i].Kind \in kinds }

InputOf(i) == FormValue(formIn.form, SchemaField(formIn.t, i).name)

\* C6: decoding a boolean field never fails, and the decoded field is true if
\* and only if the raw form value is exactly "true" or "1"; every other value,
\* the empty (or absent) one included, yields false.
C6_BoolDecode ==
    formOut.returned =>
        /\ (\A i \in 1..NumField(formIn.t) :
                InputOf(i) # <<>> => i \in FieldsOfKind(formIn.t, {"bool"}))
             => formOut.err = NoErr
        /\ formOut.err = NoErr =>
             \A i \in FieldsOfKind(formIn.t, {"bool"}) :
                formOut.val[i] = (InputOf(i) \in {<<"t","r","u","e">>, <<"1">>})

\* a boolean field was decoded from a value that is neither "true" nor "1" nor empty
C6_Witness ==
    /\ formOut.returned
    /\ formOut.err = NoErr
    /\ \E i \in FieldsOfKind(formIn.t, {"bool"}) :
          /\ InputOf(i) = <<"T","r","u","e">>
          /\ formOut.val[i] = FALSE

\* C10: whenever parseForm succeeds, every signed or unsigned integer field with
\* a non-empty form value holds exactly the number its base-10 string denotes
\* (no value out of the field's range is stored wrapped modulo 2^w).
C10_IntExact ==
    (formOut.returned /\ formOut.err = NoErr) =>
        \A i \in FieldsOfKind(formIn.t, IntKinds \cup UintKinds) :
            InputOf(i) # <<>> => formOut.val[i] = ParseInt(InputOf(i)).val

(***************************************************************************)
(* SpecCache: NumCallers goroutines (requests being decoded) call          *)
(* getSchemaFields at once for the same schema type.  Each lock operation, *)
(* each access to the map and each iteration of the loop is one step.      *)
(*                                                                         *)
(* formCacheLock is a sync.RWMutex: rw.readers counts the read locks held, *)
(* rw.writer is the goroutine that has called Lock (0 for none).  Lock     *)
(* first excludes the other writers and the readers still to come, then    *)
(* waits until the read locks already held are released.                   *)
(***************************************************************************)
Callers == 1..NumCallers

NotCalled == [returned |-> FALSE, fields |-> NilSlice]

InitCache ==
    /\ formCache = EmptyCache
    /\ pc = [c \in Callers |-> "start"]
    /\ \E t \in SchemaTypes : callT = [c \in Callers |-> t]
    /\ fields = [c \in Callers |-> NilSlice]
    /\ loopI = [c \in Callers |-> 0]
    /\ ret = [c \in Callers |-> NotCalled]
    /\ rw = [readers |-> 0, writer |-> 0]
    /\ stores = [t \in SchemaTypes |-> <<>>]
    /\ IdleServer
    /\ IdleForm

\* s.formCacheLock.RLock()
RLock(c) ==
    /\ pc[c] = "start"
    /\ rw.writer = 0
    /\ rw' = [rw EXCEPT !.readers = @ + 1]
    /\ pc' = [pc EXCEPT ![c] = "read"]
    /\ UNCHANGED <<formCache, callT, fields, loopI, ret, stores, serverVars, formVars>>

\* fields := s.formCache[t]
ReadCache(c) ==
    /\ pc[c] = "read"
    /\ fields' = [fields EXCEPT ![c] = formCache[callT[c]]]
    /\ pc' = [pc EXCEPT ![c] = "runlock"]
    /\ UNCHANGED <<formCache, callT, loopI, ret, rw, stores, serverVars, formVars>>

\* s.formCacheLock.RUnlock()
RUnlock(c) ==
    /\ pc[c] = "runlock"
    /\ rw' = [rw EXCEPT !.readers = @ - 1]
    /\ pc' = [pc EXCEPT ![c] = "check"]
    /\ UNCHANGED <<formCache, callT, fields, loopI, ret, stores, serverVars, formVars>>

\* if fields != nil { return fields, nil }
ReturnCached(c) ==
    /\ pc[c] = "check"
    /\ ~fields[c].isNil
    /\ ret' = [ret EXCEPT ![c] = [returned |-> TRUE, fields |-> fields[c]]]
    /\ pc' = [pc EXCEPT ![c] = "done"]
    /\ UNCHANGED <<formCache, callT, fields, loopI, rw, stores, serverVars, formVars>>

\* fields = make([]formField, 0, t.NumField()); i := 0
MakeFields(c) ==
    /\ pc[c] = "check"
    /\ fields[c].isNil
    /\ fields' = [fields EXCEPT ![c] = Slice(<<>>)]
    /\ loopI' = [loopI EXCEPT ![c] = 0]
    /\ pc' = [pc EXCEPT ![c] = "loop"]
    /\ UNCHANGED <<formCache, callT, ret, rw, stores, serverVars, formVars>>

\* one iteration: fields = append(fields, field); i++
LoopStep(c) ==
    /\ pc[c] = "loop"
    /\ loopI[c] < NumField(callT[c])
    /\ fields' = [fields EXCEPT ![c] =
                     Slice(Append(@.elems, SchemaField(callT[c], loopI[c] + 1)))]
    /\ loopI' = [loopI EXCEPT ![c] = @ + 1]
    /\ UNCHANGED <<formCache, pc, callT, ret, rw, stores, serverVars, formVars>>

\* the loop ends: i < t.NumField() is false
LoopExit(c) ==
    /\ pc[c] = "loop"
    /\ ~(loopI[c] < NumField(callT[c]))
    /\ pc' = [pc EXCEPT ![c] = "lock"]
    /\ UNCHANGED <<formCache, callT, fields, loopI, ret, rw, stores, serverVars, formVars>>

\* mutant: the write lock is not taken before the store
LockNotTaken(c) ==
    /\ pc[c] = "lock"
    /\ pc' = [pc EXCEPT ![c] = "store"]
    /\ UNCHANGED <<formCache, callT, fields, loopI, ret, rw, stores, serverVars, formVars>>

\* s.formCacheLock.Lock(), first half: no other writer, later readers wait
Lock(c) ==
    /\ pc[c] = "lock"
    /\ rw.writer = 0
    /\ rw' = [rw EXCEPT !.writer = c]
    /\ pc' = [pc EXCEPT ![c] = "lockwait"]
    /\ UNCHANGED <<formCache, callT, fields, loopI, ret, stores, serverVars, formVars>>

\* s.formCacheLock.Lock(), second half: the read locks held are released
LockAcquired(c) ==
    /\ pc[c] = "lockwait"
    /\ rw.readers = 0
    /\ pc' = [pc EXCEPT ![c] = "store"]
    /\ UNCHANGED <<formCache, callT, fields, loopI, ret, rw, stores, serverVars, formVars>>

\* s.formCache[t] = fields
Store(c) ==
    /\ pc[c] = "store"
    /\ formCache' = [formCache EXCEPT ![callT[c]] = fields[c]]
    /\ stores' = [stores EXCEPT ![callT[c]] = Append(@, fields[c])]
    /\ pc' = [pc EXCEPT ![c] = "unlock"]
    /\ UNCHANGED <<callT, fields, loopI, ret, rw, serverVars, formVars>>

\* s.formCacheLock.Unlock(); return fields, nil
Unlock(c) ==
    /\ pc[c] = "unlock"
    /\ rw' = [rw EXCEPT !.writer = 0]
    /\ ret' = [ret EXCEPT ![c] = [returned |-> TRUE, fields |-> fields[c]]]
    /\ pc' = [pc EXCEPT ![c] = "done"]
    /\ UNCHANGED <<formCache, callT, fields, loopI, stores, serverVars, formVars>>

Step(c) ==
    \/ RLock(c)
    \/ ReadCache(c)
    \/ RUnlock(c)
    \/ ReturnCached(c)
    \/ MakeFields(c)
    \/ LoopStep(c)
    \/ LoopExit(c)
    \/ Lock(c)
    \/ LockAcquired(c)
    \/ Store(c)
    \/ Unlock(c)

NextCache == \E c \in Callers : Step(c)

\* a goroutine that can take a step is scheduled, and a released lock is
\* handed to a goroutine waiting for it
SpecCache == InitCache /\ [][NextCache]_vars /\ \A c \in Callers : WF_vars(Step(c))

(***************************************************************************)
(* Claims about the field cache, checked under SpecCache.                  *)
(***************************************************************************)
AllDone == \A c \in Callers : pc[c] = "done"

\* the descriptor list of each schema type, written out
ExpectedFields(t) ==
    CASE t = "TestResource" ->
           Slice(<< [name |-> <<"id">>,   typ |-> "int64",  index |-> <<1>>],
                    [name |-> <<"name">>, typ |-> "string", index |-> <<2>>] >>)
      [] t = "Sample" ->
           Slice(<< [name |-> <<"count">>,  typ |-> "int8",    index |-> <<1>>],
                    [name |-> <<"size">>,   typ |-> "uint8",   index |-> <<2>>],
                    [name |-> <<"Ratio">>,  typ |-> "float64", index |-> <<3>>],
                    [name |-> <<"active">>, typ |-> "bool",    index |-> <<4>>],
                    [name |-> <<"tags">>,   typ |-> "slice",   index |-> <<5>>] >>)

C7_Safe ==
    /\ \A c \in Callers : ret[c].returned => ret[c].fields = ExpectedFields(callT[c])
    /\ \A t \in SchemaTypes : formCache[t].isNil \/ formCache[t] = ExpectedFields(t)
    /\ \A c \in Callers :
          pc[c] = "store" => /\ rw.writer = c
                             /\ rw.readers = 0
                             /\ \A d \in Callers : pc[d] \notin {"read", "runlock"}
    /\ rw.readers = Cardinality({ c \in Callers : pc[c] \in {"read", "runlock"} })
    /\ AllDone \/ ENABLED NextCache

\* C7: when several requests call getSchemaFields at once for a schema type
\* that is not cached yet, under every interleaving each caller returns the same
\* descriptor list (wire names, kinds and index paths in declaration order), the
\* cache never holds a partially built list, no caller holds the read lock and
\* the write lock together, no deadlock is reachable and every caller returns.
C7_ConcurrentFirstAccess == [](C7_Safe) /\ <>AllDone

\* every caller has returned, and two of them found the same type missing
C7_Witness ==
    /\ AllDone
    /\ \E t \in SchemaTypes : Len(stores[t]) >= 2
    /\ \A c \in Callers : ret[c].returned

\* C9 as stated: the cache entry of a schema type is written at most once.
C9_StoredOnce == \A t \in SchemaTypes : Len(stores[t]) <= 1

\* C9 as amended: the cache entry of a schema type is written at most once by
\* each caller that asked for the type (each caller that found it missing
\* stores it); every store writes the same, complete descriptor list, so the
\* entry never changes once it is set.
C9_StoresAgree ==
    \A t \in SchemaTypes :
        /\ Len(stores[t]) <= Cardinality({ c \in Callers : callT[c] = t })
        /\ \A i \in 1..Len(stores[t]) : stores[t][i] = ExpectedFields(t)
        /\ Len(stores[t]) > 0 => formCache[t] = stores[t][1]
        /\ Len(stores[t]) = 0 => formCache[t].isNil

\* a type's entry has been stored twice, with the same list
C9_Witness ==
    \E t \in SchemaTypes :
        /\ Len(stores[t]) = 2
        /\ stores[t][1] = stores[t][2]

=============================================================================
